---- MODULE Spec2Model ----
(***************************************************************************)
(* Support-bot chat widget (src/app/page.tsx) and knowledge-base proxy     *)
(* (src/app/api/rag/route.ts).                                             *)
(*                                                                         *)
(* The two components share no state: the chat widget is checked under     *)
(* ChatSpec and the proxy under RagSpec.                                   *)
(*                                                                         *)
(* Texts are sequences of characters.  A JavaScript field that may be      *)
(* missing is a record field that may be outside the record's DOMAIN.      *)
(***************************************************************************)
EXTENDS Integers, Sequences, FiniteSets, TLC

\* ------------------------------------------------------------- bounds
MaxSends == 2        \* accepted sends explored per session

SeqsUpTo(S, n) == UNION {[1..k -> S] : k \in 0..n}

\* ------------------------------------------------------------- state
VARIABLES
  messages,             \* useState<Message[]>([])
  input,                \* useState('')
  loading,              \* useState(false)
  followUpSuggestions,  \* useState<string[]>([])
  inflight,             \* callAIAgent calls issued and not yet settled
  issued,               \* number of callAIAgent calls issued so far
  ev,                   \* the chat handler that ran last, with its argument
  apiKey,               \* LYZR_API_KEY
  rq,                   \* the route handler running: request, position, locals
  net,                  \* the fetch calls of this run, in order
  res                   \* the NextResponse of this run

chatVars ==
  <<messages, input, loading, followUpSuggestions, inflight, issued, ev>>

ragVars == <<apiKey, rq, net, res>>

vars == <<chatVars, ragVars>>

\* ------------------------------------------------------------- texts
\* What is typed into the input box: nothing, blanks only, a word, a word
\* with blanks around it, two words.
Texts ==
  {<<>>, <<" ">>, <<"a">>, <<" ", "a", " ">>, <<"a", " ", "a">>}

\* The value of a parameter that was not passed (handleSendMessage()).
undefined == <<"undefined">>

\* JavaScript truthiness of a string-or-undefined value.
truthy(v) == v # undefined /\ v # <<>>

\* a || b
Or(a, b) == IF truthy(a) THEN a ELSE b

RECURSIVE trimStart(_)
trimStart(s) == IF s # <<>> /\ Head(s) = " " THEN trimStart(Tail(s)) ELSE s

RECURSIVE trimEnd(_)
trimEnd(s) ==
  IF s # <<>> /\ s[Len(s)] = " " THEN trimEnd(SubSeq(s, 1, Len(s) - 1)) ELSE s

\* String.prototype.trim
trim(s) == trimEnd(trimStart(s))

AGENT_ID == "69725d281d92f5e2dd22f8e4"

FallbackErrorText == <<"Sorry, I encountered an error. Please try again.">>
NetworkErrorText == <<"Sorry, I encountered a network error. Please try again.">>

\* ------------------------------------------------- the agent's replies
\* What callAIAgent can settle with.  The promise rejects ("throw"), or it
\* resolves with a value whose response, result, message and
\* follow_up_suggestions may each be missing.
Answers == {<<"H", "i">>}
Confidences == {0, 90}              \* in percent
SuggestionTexts == {<<"a">>, <<" ">>, <<>>}
FollowUps == {<<>>, << <<"a">>, <<" ">> >>}
ServiceMessages == {<<>>, <<"q", "u", "o", "t", "a">>}

AgentResults ==
  [answer : Answers, confidence : Confidences]
    \cup [answer : Answers, confidence : Confidences,
          follow_up_suggestions : FollowUps]

AgentResponses ==
  [status : {"success"}] \cup [status : {"success"}, result : AgentResults]
    \cup [status : {"success", "error"}, message : ServiceMessages]
    \cup [status : {"error"}]

AgentOutcomes ==
  {[kind |-> "throw"]}
    \cup [kind : {"value"}, success : BOOLEAN]
    \cup [kind : {"value"}, success : BOOLEAN, response : AgentResponses]

ChatInit ==
  /\ messages = <<>>
  /\ input = <<>>
  /\ loading = FALSE
  /\ followUpSuggestions = <<>>
  /\ inflight = <<>>
  /\ issued = 0
  /\ ev = [op |-> "init"]

\* onChange={(e) => setInput(e.target.value)}
setInput(t) ==
  /\ input' = t
  /\ ev' = [op |-> "type"]
  /\ UNCHANGED <<messages, loading, followUpSuggestions, inflight, issued>>
  /\ UNCHANGED ragVars

\* const textToSend = messageText || input.trim()
\* (textToSendNoTrim is textToSend without the trim: C3 fails of it.)
textToSendNoTrim(messageText) == Or(messageText, input)
textToSend(messageText) == Or(messageText, trim(input))

\* if (!textToSend || loading) return
\* loading is the value of the last render.  React commits the state updates
\* of an event handler, and those of the continuation of an await, before
\* the next event is dispatched, so that value is the current one.
\* (suppressedIgnoringLoading is the guard without loading: C1 fails of it.)
suppressedIgnoringLoading(text) == ~truthy(text)
suppressed(text) == ~truthy(text) \/ loading

\* setMessages(prev => [...prev, message])
\* (prependMessage puts the new Message first: C11 fails of it.)
prependMessage(prev, message) == <<message>> \o prev
appendMessage(prev, message) == Append(prev, message)

\* handleSendMessage up to its await.  suggestions is followUpSuggestions as
\* the caller left it (handleSuggestionClick clears it first).
\* Message ids and timestamps are read off the clock and nothing reads them
\* back: a Message is modelled by its other fields.
handleSendMessage(messageText, suggestions) ==
  IF suppressed(textToSend(messageText))
  THEN /\ followUpSuggestions' = suggestions
       /\ UNCHANGED <<messages, input, loading, inflight, issued>>
  ELSE /\ issued < MaxSends
       /\ messages' = appendMessage(messages,
                                     [role |-> "user",
                                      content |-> textToSend(messageText)])
       /\ input' = <<>>
       /\ loading' = TRUE
       /\ followUpSuggestions' = <<>>
       /\ inflight' =
            Append(inflight, [message |-> textToSend(messageText),
                              agent_id |-> AGENT_ID])
       /\ issued' = issued + 1

\* The Enter key and the send button: handleSendMessage()
handleKeyPress ==
  /\ handleSendMessage(undefined, followUpSuggestions)
  /\ ev' = [op |-> "send"]
  /\ UNCHANGED ragVars

handleSuggestionClick(suggestion) ==
  /\ handleSendMessage(suggestion, <<>>)
  /\ ev' = [op |-> "click", suggestion |-> suggestion]
  /\ UNCHANGED ragVars

\* Which branch of the try block an outcome takes.
hasResponse(o) == o.kind = "value" /\ "response" \in DOMAIN o
isSuccess(o) == hasResponse(o) /\ o.success /\ o.response.status = "success"
\* A property read off undefined (result.response or response.result missing).
throwsTypeError(o) ==
  /\ o.kind = "value"
  /\ \/ ~hasResponse(o)
     \/ isSuccess(o) /\ "result" \notin DOMAIN o.response
entersCatch(o) == o.kind = "throw" \/ throwsTypeError(o)

agentMessage(agentData) ==
  IF "follow_up_suggestions" \in DOMAIN agentData
  THEN [role |-> "agent", content |-> agentData.answer,
        followUpSuggestions |-> agentData.follow_up_suggestions,
        confidence |-> agentData.confidence]
  ELSE [role |-> "agent", content |-> agentData.answer,
        confidence |-> agentData.confidence]

\* errorMessageAlwaysFallback drops the service's message: C5 fails of it.
errorMessageAlwaysFallback(response) ==
  [role |-> "agent", content |-> FallbackErrorText]

errorMessage(response) ==
  [role |-> "agent",
   content |-> Or(IF "message" \in DOMAIN response THEN response.message
                  ELSE undefined,
                  FallbackErrorText)]

networkErrorMessage == [role |-> "agent", content |-> NetworkErrorText]

\* The Message the continuation appends.
replyMessage(o) ==
  IF entersCatch(o) THEN networkErrorMessage
  ELSE IF isSuccess(o) THEN agentMessage(o.response.result)
  ELSE errorMessage(o.response)

\* publishedSuggestionsNone publishes nothing: C4 fails of it.
publishedSuggestionsNone(agentData) == <<>>

\* agentData.follow_up_suggestions || []
publishedSuggestions(agentData) ==
  IF "follow_up_suggestions" \in DOMAIN agentData
  THEN agentData.follow_up_suggestions ELSE <<>>

\* finally { setLoading(false) }
\* (loadingAfterTryOnly clears loading at the end of the try block instead,
\* which an exception skips: C2 fails of it.)
loadingAfterTryOnly(o) == entersCatch(o)
loadingAfter(o) == FALSE

RemoveAt(s, i) == SubSeq(s, 1, i - 1) \o SubSeq(s, i + 1, Len(s))

\* handleSendMessage after its await: the i-th outstanding call settles with o.
handleSendMessageResume(i, o) ==
  /\ messages' = appendMessage(messages, replyMessage(o))
  /\ followUpSuggestions' =
       IF ~entersCatch(o) /\ isSuccess(o)
       THEN publishedSuggestions(o.response.result)
       ELSE followUpSuggestions
  /\ loading' = loadingAfter(o)
  /\ inflight' = RemoveAt(inflight, i)
  /\ ev' = [op |-> "complete", call |-> inflight[i], outcome |-> o]
  /\ UNCHANGED <<input, issued>>
  /\ UNCHANGED ragVars

ChatNext ==
  \/ \E t \in Texts : setInput(t)
  \/ handleKeyPress
  \/ \E s \in SuggestionTexts : handleSuggestionClick(s)
  \/ \E i \in 1..Len(inflight), o \in AgentOutcomes : handleSendMessageResume(i, o)

\* ===================================================== knowledge-base proxy
\* One run of a route handler at a time: the handlers share no state, so runs
\* of different requests do not affect one another.

MaxUnits == 2        \* content units in one parse reply
MaxNames == 2        \* document names in one delete request

\* process.env.LYZR_API_KEY || ''
ApiKeys == {"", "key"}

\* "" stands for a ragId that is missing (null) or empty: both are falsy.
RagIds == {"", "kb"}

PDF == "application/pdf"
DOCX == "application/vnd.openxmlformats-officedocument.wordprocessingml.document"
TXT == "text/plain"

\* The keys FILE_TYPE_CONFIG defines itself.
AllowList == {PDF, DOCX, TXT}

\* FILE_TYPE_CONFIG is an object literal: a lookup of a key it does not define
\* goes on to Object.prototype.  File.type is lower-cased, so of the inherited
\* names only the all-lower-case ones can be looked up.
ObjectPrototypeKeys == {"constructor", "__proto__"}

FileTypes == AllowList \cup {"image/png", "", "constructor"}

Files ==
  {[present |-> FALSE]} \cup [present : {TRUE}, name : {"doc"}, type : FileTypes]

\* FILE_TYPE_CONFIG[key].  found is the truthiness of the value; an inherited
\* value is an object with neither a type nor a parser property.
FILE_TYPE_CONFIG(key) ==
  CASE key = PDF -> [found |-> TRUE, type |-> "pdf", parser |-> "pypdf"]
    [] key = DOCX -> [found |-> TRUE, type |-> "docx", parser |-> "docx2txt"]
    [] key = TXT -> [found |-> TRUE, type |-> "txt", parser |-> "txt_parser"]
    [] key \in ObjectPrototypeKeys ->
         [found |-> TRUE, type |-> "undefined", parser |-> "undefined"]
    [] OTHER -> [found |-> FALSE]

\* ---- requests
GetRequests == [ragId : RagIds]
\* malformed: a body request.formData() / request.json() cannot read.
PostRequests ==
  {[malformed |-> TRUE]} \cup [malformed : {FALSE}, ragId : RagIds, file : Files]

DocumentNames == {"a.pdf", "b.pdf"}
\* The documentNames field of a delete body: missing, a string, or an array.
DocumentNamesValues ==
  {[kind |-> "undefined"], [kind |-> "string"]}
    \cup [kind : {"array"}, items : SeqsUpTo(DocumentNames, MaxNames)]
DeleteRequests ==
  {[malformed |-> TRUE]}
    \cup [malformed : {FALSE}, ragId : RagIds, documentNames : DocumentNamesValues]

\* !documentNames || !Array.isArray(documentNames): an empty array is truthy.
validDocumentNames(d) == d.kind = "array"

\* ---- what the backend answers
BackendErrorStatuses == {404, 503}
Failures ==
  {[kind |-> "throw"]} \cup [kind : {"response"}, ok : {FALSE}, status : BackendErrorStatuses]

RawDocuments ==
  {<<>>,
   <<[id |-> "1", file_name |-> "a.pdf", file_type |-> "pdf", status |-> "ready"]>>,
   <<[_id |-> "2", fileName |-> "b.txt"], [name |-> "c"]>>}
ListBodies ==
  {[malformed |-> TRUE], [malformed |-> FALSE]}
    \cup [malformed : {FALSE}, documents : RawDocuments]
    \cup [malformed : {FALSE}, data : RawDocuments]
ListReplies == Failures \cup [kind : {"response"}, ok : {TRUE}, body : ListBodies]

\* One parsed content unit: an object with content, with text, with content
\* and metadata, or a bare string.
Units ==
  {[content |-> "c"], [text |-> "t"], [str |-> "s"],
   [content |-> "c", metadata |-> [file_name |-> "inner"]]}
\* A documents or chunks property: an array of units, or an object that is
\* no array.
UnitLists ==
  {[isArray |-> FALSE]} \cup [isArray : {TRUE}, items : SeqsUpTo(Units, MaxUnits)]
\* A body has documents, chunks, both or neither; chunks is read only when
\* documents is missing, so next to documents one value of it is enough.
ParseBodies ==
  {[malformed |-> TRUE], [malformed |-> FALSE]}
    \cup [malformed : {FALSE}, documents : UnitLists]
    \cup [malformed : {FALSE}, chunks : UnitLists]
    \cup [malformed : {FALSE}, documents : UnitLists,
          chunks : {[isArray |-> TRUE, items |-> <<[text |-> "t"]>>]}]
ParseReplies == Failures \cup [kind : {"response"}, ok : {TRUE}, body : ParseBodies]

TrainReplies == Failures \cup {[kind |-> "response", ok |-> TRUE]}

\* The backend's own count of removed documents: the handler never reads it.
DeleteReplies ==
  Failures \cup [kind : {"response"}, ok : {TRUE}, removed : 0..MaxNames]

RagInit ==
  /\ apiKey \in ApiKeys
  /\ rq = [pc |-> "idle"]
  /\ net = <<>>
  /\ res = [sent |-> FALSE]

\* NextResponse.json(body, { status })
reply(status, body) ==
  /\ res' = [sent |-> TRUE, status |-> status, body |-> body]
  /\ UNCHANGED apiKey

\* catch (error): 500
serverError == [success |-> FALSE, error |-> "Server error"]

canStart == rq.pc \in {"idle", "done"}

\* if (!LYZR_API_KEY)
\* (keyMissingNeverChecked leaves the test out: C8 fails of it.)
keyMissingNeverChecked == FALSE
keyMissing == apiKey = ""

notConfigured ==
  [success |-> FALSE, error |-> "LYZR_API_KEY not configured on server"]

\* ---- GET: list the documents of a knowledge base
Field(doc, f) == IF f \in DOMAIN doc THEN doc[f] ELSE ""
\* a || b on strings, "" standing for undefined as well
OrS(a, b) == IF a # "" THEN a ELSE b

normalizeDocument(doc) ==
  [id |-> OrS(Field(doc, "id"), Field(doc, "_id")),
   fileName |-> OrS(OrS(Field(doc, "file_name"), Field(doc, "fileName")),
                    Field(doc, "name")),
   fileType |-> OrS(OrS(Field(doc, "file_type"), Field(doc, "fileType")), "unknown"),
   fileSize |-> OrS(Field(doc, "file_size"), Field(doc, "fileSize")),
   status |-> OrS(Field(doc, "status"), "active"),
   uploadedAt |-> OrS(Field(doc, "uploaded_at"), Field(doc, "createdAt")),
   documentCount |-> OrS(Field(doc, "document_count"), Field(doc, "chunks"))]

\* data.documents || data.data || []
listedDocuments(data) ==
  IF "documents" \in DOMAIN data THEN data.documents
  ELSE IF "data" \in DOMAIN data THEN data.data
  ELSE <<>>

GET(r) ==
  /\ canStart
  /\ IF r.ragId = ""
     THEN /\ reply(400, [success |-> FALSE, error |-> "ragId is required"])
          /\ net' = <<>>
          /\ rq' = [pc |-> "done", op |-> "GET", request |-> r]
     ELSE IF keyMissing
     THEN /\ reply(500, notConfigured)
          /\ net' = <<>>
          /\ rq' = [pc |-> "done", op |-> "GET", request |-> r]
     ELSE /\ net' = <<[endpoint |-> "GET /document", rag_id |-> r.ragId]>>
          /\ rq' = [pc |-> "GET_fetch", op |-> "GET", request |-> r]
          /\ res' = [sent |-> FALSE]
          /\ UNCHANGED apiKey
  /\ UNCHANGED chatVars

GETResponse(b) ==
  /\ rq.pc = "GET_fetch"
  /\ rq' = [pc |-> "done", op |-> "GET", request |-> rq.request, response |-> b]
  /\ IF b.kind = "throw" THEN reply(500, serverError)
     ELSE IF ~b.ok
     THEN reply(b.status, [success |-> FALSE, error |-> "Failed to get documents",
                           details |-> "errorText"])
     ELSE IF b.body.malformed THEN reply(500, serverError)
     ELSE LET raw == listedDocuments(b.body) IN
          reply(200, [success |-> TRUE,
                      documents |-> [i \in 1..Len(raw) |-> normalizeDocument(raw[i])],
                      ragId |-> rq.request.ragId])
  /\ UNCHANGED <<net, chatVars>>

\* ---- POST: upload and train a document
\* parseData.documents || parseData.chunks || []  (an array, even an empty
\* one, is truthy)
parsedDocuments(parseData) ==
  IF "documents" \in DOMAIN parseData THEN parseData.documents
  ELSE IF "chunks" \in DOMAIN parseData THEN parseData.chunks
  ELSE [isArray |-> TRUE, items |-> <<>>]

\* if (documents.length === 0)
\* (noContentNeverChecked leaves the test out: C7 fails of it.)
noContentNeverChecked(documents) == FALSE
noContent(documents) == documents.isArray /\ Len(documents.items) = 0

\* doc.content || doc.text || doc
unitContent(doc) ==
  IF "content" \in DOMAIN doc THEN doc.content
  ELSE IF "text" \in DOMAIN doc THEN doc.text
  ELSE doc.str

\* { file_name, file_type, ...(doc.metadata || {}) }
unitMetadata(doc, file, fileConfig) ==
  LET base == [file_name |-> file.name, file_type |-> fileConfig.type]
      more == IF "metadata" \in DOMAIN doc THEN doc.metadata ELSE <<>>
  IN  [k \in DOMAIN base \cup DOMAIN more |->
         IF k \in DOMAIN more THEN more[k] ELSE base[k]]

trainDocuments(items, file, fileConfig) ==
  [i \in 1..Len(items) |->
     [content |-> unitContent(items[i]),
      metadata |-> unitMetadata(items[i], file, fileConfig)]]

POST(r) ==
  /\ canStart
  /\ IF keyMissing
     THEN /\ reply(500, notConfigured)
          /\ net' = <<>>
          /\ rq' = [pc |-> "done", op |-> "POST", request |-> r]
     ELSE IF r.malformed
     THEN /\ reply(500, serverError)
          /\ net' = <<>>
          /\ rq' = [pc |-> "done", op |-> "POST", request |-> r]
     ELSE IF r.ragId = "" \/ ~r.file.present
     THEN /\ reply(400, [success |-> FALSE, error |-> "ragId and file are required"])
          /\ net' = <<>>
          /\ rq' = [pc |-> "done", op |-> "POST", request |-> r]
     ELSE IF ~FILE_TYPE_CONFIG(r.file.type).found
     THEN /\ reply(400, [success |-> FALSE, error |-> "Unsupported file type",
                         type |-> r.file.type])
          /\ net' = <<>>
          /\ rq' = [pc |-> "done", op |-> "POST", request |-> r]
     ELSE /\ net' = <<[endpoint |-> "POST /document/parse", file |-> r.file.name,
                       parser |-> FILE_TYPE_CONFIG(r.file.type).parser]>>
          /\ rq' = [pc |-> "POST_parse", op |-> "POST", request |-> r,
                    fileConfig |-> FILE_TYPE_CONFIG(r.file.type)]
          /\ res' = [sent |-> FALSE]
          /\ UNCHANGED apiKey
  /\ UNCHANGED chatVars

\* The parse call settles with b.
POSTParseResponse(b) ==
  /\ rq.pc = "POST_parse"
  /\ LET done == [pc |-> "done", op |-> "POST", request |-> rq.request,
                  fileConfig |-> rq.fileConfig, parseResponse |-> b]
     IN
     IF b.kind = "throw"
     THEN reply(500, serverError) /\ rq' = done /\ UNCHANGED net
     ELSE IF ~b.ok
     THEN /\ reply(b.status, [success |-> FALSE, error |-> "Failed to parse document",
                              details |-> "errorText"])
          /\ rq' = done
          /\ UNCHANGED net
     ELSE IF b.body.malformed
     THEN reply(500, serverError) /\ rq' = done /\ UNCHANGED net
     ELSE LET documents == parsedDocuments(b.body) IN
          IF noContent(documents)
          THEN /\ reply(400, [success |-> FALSE,
                              error |-> "No content extracted from document"])
               /\ rq' = done
               /\ UNCHANGED net
          ELSE IF ~documents.isArray
          \* documents.map is not a function
          THEN reply(500, serverError) /\ rq' = done /\ UNCHANGED net
          ELSE /\ net' = Append(net,
                     [endpoint |-> "POST /train", rag_id |-> rq.request.ragId,
                      documents |-> trainDocuments(documents.items, rq.request.file,
                                                   rq.fileConfig)])
               /\ rq' = [pc |-> "POST_train", op |-> "POST", request |-> rq.request,
                         fileConfig |-> rq.fileConfig, parseResponse |-> b,
                         documents |-> documents.items]
               /\ UNCHANGED <<res, apiKey>>
  /\ UNCHANGED chatVars

\* The train call settles with b.
POSTTrainResponse(b) ==
  /\ rq.pc = "POST_train"
  /\ rq' = [rq EXCEPT !.pc = "done"]
  /\ IF b.kind = "throw" THEN reply(500, serverError)
     ELSE IF ~b.ok
     THEN reply(b.status, [success |-> FALSE,
                           error |-> "Failed to train knowledge base",
                           details |-> "errorText"])
     ELSE reply(200, [success |-> TRUE,
                      message |-> "Document uploaded and trained successfully",
                      fileName |-> rq.request.file.name,
                      fileType |-> rq.fileConfig.type,
                      documentCount |-> Len(rq.documents),
                      ragId |-> rq.request.ragId])
  /\ UNCHANGED <<net, chatVars>>

\* ---- DELETE: remove documents from a knowledge base
DELETE(r) ==
  /\ canStart
  /\ IF keyMissing
     THEN /\ reply(500, notConfigured)
          /\ net' = <<>>
          /\ rq' = [pc |-> "done", op |-> "DELETE", request |-> r]
     ELSE IF r.malformed
     THEN /\ reply(500, serverError)
          /\ net' = <<>>
          /\ rq' = [pc |-> "done", op |-> "DELETE", request |-> r]
     ELSE IF r.ragId = "" \/ ~validDocumentNames(r.documentNames)
     THEN /\ reply(400, [success |-> FALSE,
                         error |-> "ragId and documentNames array are required"])
          /\ net' = <<>>
          /\ rq' = [pc |-> "done", op |-> "DELETE", request |-> r]
     ELSE /\ net' = <<[endpoint |-> "DELETE /document", rag_id |-> r.ragId,
                       document_names |-> r.documentNames.items]>>
          /\ rq' = [pc |-> "DELETE_fetch", op |-> "DELETE", request |-> r]
          /\ res' = [sent |-> FALSE]
          /\ UNCHANGED apiKey
  /\ UNCHANGED chatVars

\* deletedCount: documentNames.length
\* (deletedCountFromBackend reports the backend's count: C10 fails of it.)
deletedCountFromBackend(documentNames, b) == b.removed
deletedCount(documentNames, b) == Len(documentNames.items)

\* The delete call settles with b.
DELETEResponse(b) ==
  /\ rq.pc = "DELETE_fetch"
  /\ rq' = [pc |-> "done", op |-> "DELETE", request |-> rq.request, response |-> b]
  /\ IF b.kind = "throw" THEN reply(500, serverError)
     ELSE IF b.ok
     THEN reply(200, [success |-> TRUE, message |-> "Documents deleted successfully",
                      deletedCount |-> deletedCount(rq.request.documentNames, b),
                      ragId |-> rq.request.ragId])
     ELSE reply(b.status, [success |-> FALSE, error |-> "Failed to delete documents",
                           details |-> "errorText"])
  /\ UNCHANGED <<net, chatVars>>

RagNext ==
  \/ \E r \in GetRequests : GET(r)
  \/ \E b \in ListReplies : GETResponse(b)
  \/ \E r \in PostRequests : POST(r)
  \/ \E b \in ParseReplies : POSTParseResponse(b)
  \/ \E b \in TrainReplies : POSTTrainResponse(b)
  \/ \E r \in DeleteRequests : DELETE(r)
  \/ \E b \in DeleteReplies : DELETEResponse(b)

\* ------------------------------------------------------- specifications
Init == ChatInit /\ RagInit

\* The chat widget alone; it never reads the credential.
ChatStart == Init /\ apiKey = "key"
ChatSpec == ChatStart /\ [][ChatNext]_vars

\* The proxy alone.
RagSpec == Init /\ [][RagNext]_vars

\* ============================================================== claims
\* ---- helpers of the chat claims
Last(q) == q[Len(q)]
Extends(after, before) ==
  /\ Len(after) = Len(before) + 1
  /\ SubSeq(after, 1, Len(before)) = before
CountRole(q, role) == Cardinality({i \in DOMAIN q : q[i].role = role})
userMessage(text) == [role |-> "user", content |-> text]
\* The step is an invocation of sendMessage: from the input box, or from a
\* suggestion click.
IsSendStep == ev'.op \in {"send", "click"}
\* The text handed to that invocation, as the caller gave it.
GivenText == IF ev'.op = "send" THEN input ELSE ev'.suggestion
\* The text the invocation goes on with.
EffectiveText ==
  IF ev'.op = "click" /\ ev'.suggestion # <<>> THEN ev'.suggestion
  ELSE IF Len(input) > 0 /\ \E i \in DOMAIN input : input[i] # " "
  THEN LET first == CHOOSE i \in DOMAIN input :
                      input[i] # " " /\ \A j \in 1..(i - 1) : input[j] = " "
           last == CHOOSE i \in DOMAIN input :
                     input[i] # " " /\ \A j \in (i + 1)..Len(input) : input[j] = " "
       IN  SubSeq(input, first, last)
  ELSE <<>>
IsCompleteStep == ev'.op = "complete"

\* C1: while an agent call is outstanding, every invocation of sendMessage
\* (input box or suggestion click) appends no Message and issues no call; the
\* completion of the call issues none either (the suppressed text is dropped,
\* not queued); so at most one agent call is outstanding in every state.
C1_SuppressedWhileInFlight ==
  /\ [](Len(inflight) <= 1)
  /\ [][(IsSendStep /\ inflight # <<>>)
          => UNCHANGED <<messages, inflight, issued, input, loading,
                         followUpSuggestions>>]_vars
  /\ [][IsCompleteStep
          => (issued' = issued /\ Len(inflight') = Len(inflight) - 1)]_vars

\* A send of a sendable text from the input box was suppressed: the text is
\* still in the box, the first call is still the only one outstanding.
C1_Witness ==
  /\ ev.op = "send"
  /\ input = <<"a">>
  /\ Len(inflight) = 1
  /\ issued = 1
  /\ Len(messages) = 1

\* C2: when the agent call of an accepted send settles, whatever it settles
\* with, exactly one agent Message is appended right after that send's user
\* Message and loading is false; with no call outstanding there are as many
\* agent Messages as accepted sends.
C2_OneReplyPerSend ==
  /\ [][IsCompleteStep
          => /\ messages # <<>>
             /\ Last(messages) = userMessage(ev'.call.message)
             /\ Extends(messages', messages)
             /\ Last(messages').role = "agent"
             /\ loading' = FALSE]_vars
  /\ [](inflight = <<>>
          => /\ CountRole(messages, "agent") = issued
             /\ CountRole(messages, "user") = issued
             /\ loading = FALSE)

\* A call resolved with a value that has no response body.
C2_Witness ==
  /\ ev.op = "complete"
  /\ ev.outcome.kind = "value"
  /\ "response" \notin DOMAIN ev.outcome
  /\ Len(messages) = 2
  /\ messages[2].role = "agent"
  /\ ~loading

\* C3 as stated: for every non-empty text, with no request in flight,
\* sendMessage appends exactly one user Message carrying that text, clears
\* the suggestions, sets loading and issues the call.
C3_AsStated ==
  [][(IsSendStep /\ inflight = <<>> /\ ~loading /\ GivenText # <<>>)
       => /\ messages' = Append(messages, userMessage(GivenText))
          /\ followUpSuggestions' = <<>>
          /\ loading' = TRUE
          /\ Len(inflight') = 1]_vars

\* C3 amended: the text sendMessage goes on with is the suggestion passed when
\* that is non-empty, and otherwise the input box content trimmed of the
\* blanks around it.  With no request in flight, if that text is non-empty
\* exactly one user Message carrying it is appended, the suggestions are
\* cleared, loading is set and the call carries the same text; if it is empty
\* nothing is appended and no call is issued.  While the call is outstanding
\* the user Message is the last of the list, and the completion of the call,
\* whatever its outcome, leaves it in the list.
C3_OptimisticUserMessage ==
  /\ [][(IsSendStep /\ inflight = <<>> /\ ~loading)
          => IF EffectiveText # <<>>
             THEN /\ messages' = Append(messages, userMessage(EffectiveText))
                  /\ followUpSuggestions' = <<>>
                  /\ loading' = TRUE
                  /\ inflight' = <<[message |-> EffectiveText, agent_id |-> AGENT_ID]>>
             ELSE UNCHANGED <<messages, inflight, loading>>]_vars
  /\ [](inflight # <<>>
          => /\ messages # <<>>
             /\ Last(messages) = userMessage(inflight[1].message)
             /\ loading
             /\ followUpSuggestions = <<>>)
  /\ [][IsCompleteStep => SubSeq(messages', 1, Len(messages)) = messages]_vars

\* A second send, from the input box, went out with suggestions on display:
\* they are cleared and the user Message is there while the call is out.
C3_Witness ==
  /\ ev.op = "send"
  /\ Len(inflight) = 1
  /\ Len(messages) = 3
  /\ "followUpSuggestions" \in DOMAIN messages[2]
  /\ messages[2].followUpSuggestions # <<>>
  /\ messages[3] = userMessage(<<"a", " ", "a">>)
  /\ followUpSuggestions = <<>>
  /\ loading

\* C4: a call that resolves with success and status "success" and a result
\* {answer, confidence, follow_up_suggestions} appends exactly one agent
\* Message with that answer and that confidence, and publishes exactly
\* follow_up_suggestions, in order.
C4_SuccessReply ==
  [][(IsCompleteStep /\ isSuccess(ev'.outcome)
        /\ "result" \in DOMAIN ev'.outcome.response
        /\ "follow_up_suggestions" \in DOMAIN ev'.outcome.response.result)
       => LET result == ev'.outcome.response.result IN
          /\ Extends(messages', messages)
          /\ Last(messages').role = "agent"
          /\ Last(messages').content = result.answer
          /\ Last(messages').confidence = result.confidence
          /\ followUpSuggestions' = result.follow_up_suggestions]_vars

C4_Witness ==
  /\ ev.op = "complete"
  /\ Len(messages) = 2
  /\ messages[2].content = <<"H", "i">>
  /\ "confidence" \in DOMAIN messages[2]
  /\ messages[2].confidence = 90
  /\ followUpSuggestions = << <<"a">>, <<" ">> >>

\* ---- helpers of C5
IsTransportFailure(o) == o.kind = "throw"
IsNonSuccessResponse(o) == hasResponse(o) /\ o.response.status # "success"
IsFailedRoundTrip(o) == IsTransportFailure(o) \/ IsNonSuccessResponse(o)
\* The next invocation of sendMessage after a failed round trip is accepted.
NextSendAccepted ==
  [][(ev.op = "complete" /\ IsFailedRoundTrip(ev.outcome)
        /\ IsSendStep /\ EffectiveText # <<>>)
       => /\ messages' = Append(messages, userMessage(EffectiveText))
          /\ Len(inflight') = 1]_vars

\* C5 as stated: after a transport failure the appended agent Message is the
\* network-error string; after a response with a non-success status it is the
\* response's message field, or the fallback string when the field is absent;
\* in both cases loading is false, the suggestions stay empty and the next
\* sendMessage is accepted.
C5_AsStated ==
  /\ [][(IsCompleteStep /\ IsFailedRoundTrip(ev'.outcome))
          => LET o == ev'.outcome IN
             /\ Extends(messages', messages)
             /\ Last(messages').role = "agent"
             /\ Last(messages').content =
                  IF IsTransportFailure(o) THEN NetworkErrorText
                  ELSE IF "message" \in DOMAIN o.response THEN o.response.message
                  ELSE FallbackErrorText
             /\ IsNonSuccessResponse(o) => Last(messages').content # NetworkErrorText
             /\ loading' = FALSE
             /\ followUpSuggestions' = <<>>]_vars
  /\ NextSendAccepted

\* C5 amended: as C5, with the fallback string used when the message field is
\* absent or is the empty string.
C5_FailurePlaceholder ==
  /\ [][(IsCompleteStep /\ IsFailedRoundTrip(ev'.outcome))
          => LET o == ev'.outcome IN
             /\ Extends(messages', messages)
             /\ Last(messages').role = "agent"
             /\ Last(messages').content =
                  IF IsTransportFailure(o) THEN NetworkErrorText
                  ELSE IF "message" \in DOMAIN o.response /\ o.response.message # <<>>
                  THEN o.response.message
                  ELSE FallbackErrorText
             /\ IsNonSuccessResponse(o) => Last(messages').content # NetworkErrorText
             /\ loading' = FALSE
             /\ followUpSuggestions' = <<>>]_vars
  /\ NextSendAccepted

\* The service's own message was shown, and the send after it went out.
C5_Witness ==
  /\ ev.op \in {"send", "click"}
  /\ Len(messages) = 3
  /\ messages[2] = [role |-> "agent", content |-> <<"q", "u", "o", "t", "a">>]
  /\ messages[3].role = "user"
  /\ Len(inflight) = 1

\* ---- helpers of the proxy claims
Started == rq.pc # "idle"
Parsed == "malformed" \in DOMAIN rq.request /\ ~rq.request.malformed
NoFetch == net = <<>>
Refused(status) == res.sent => (res.status = status /\ ~res.body.success)
TrainCalls == {i \in DOMAIN net : net[i].endpoint = "POST /train"}

\* C6: with the credential configured, uploadAndTrain with a ragId, a file and
\* a declared content type outside the allow-list issues no network call and
\* answers 400 with success=false.
C6_AsStated ==
  (/\ apiKey # ""
   /\ Started
   /\ rq.op = "POST"
   /\ Parsed
   /\ rq.request.ragId # ""
   /\ rq.request.file.present
   /\ rq.request.file.type \notin AllowList)
    => (NoFetch /\ Refused(400))

\* C7: in a run of uploadAndTrain the train endpoint is called at most once,
\* and only as the second call, after a parse call that answered with a
\* success status and at least one content unit; a parse call answered with a
\* non-success status ends the run with that status and no train call; one
\* answered with success and zero content units ends it with 400,
\* success=false and no train call.
C7_TrainOnlyAfterParse ==
  (Started /\ rq.op = "POST")
    => /\ Cardinality(TrainCalls) <= 1
       /\ \A i \in TrainCalls :
            /\ i = 2
            /\ net[1].endpoint = "POST /document/parse"
            /\ rq.parseResponse.kind = "response"
            /\ rq.parseResponse.ok
            /\ ~rq.parseResponse.body.malformed
            /\ parsedDocuments(rq.parseResponse.body).isArray
            /\ Len(parsedDocuments(rq.parseResponse.body).items) >= 1
       /\ (/\ rq.pc = "done"
           /\ "parseResponse" \in DOMAIN rq
           /\ rq.parseResponse.kind = "response")
            => LET p == rq.parseResponse IN
               /\ ~p.ok => (/\ res.sent
                            /\ res.status = p.status
                            /\ ~res.body.success
                            /\ TrainCalls = {})
               /\ (/\ p.ok
                   /\ ~p.body.malformed
                   /\ parsedDocuments(p.body).isArray
                   /\ Len(parsedDocuments(p.body).items) = 0)
                    => (/\ res.sent
                        /\ res.status = 400
                        /\ ~res.body.success
                        /\ TrainCalls = {})

\* The parse reply had an empty documents array next to a non-empty chunks
\* array: the run ended with 400 and no train call.
C7_Witness ==
  /\ Started
  /\ rq.op = "POST"
  /\ rq.pc = "done"
  /\ "parseResponse" \in DOMAIN rq
  /\ rq.parseResponse.kind = "response"
  /\ rq.parseResponse.ok
  /\ ~rq.parseResponse.body.malformed
  /\ "documents" \in DOMAIN rq.parseResponse.body
  /\ rq.parseResponse.body.documents = [isArray |-> TRUE, items |-> <<>>]
  /\ res.status = 400
  /\ Len(net) = 1

\* C8 as stated: without the credential every request of the three
\* operations is answered 500 with success=false and no network call.
C8_AsStated ==
  (apiKey = "" /\ Started) => (NoFetch /\ res.sent /\ Refused(500))

\* C8 amended: without the credential no operation issues a network call;
\* uploadAndTrain and deleteDocuments answer every request 500 with
\* success=false, whatever its other fields; listDocuments answers 500 with
\* success=false when the request carries a ragId, and 400 with success=false
\* when its ragId is missing.
C8_NoCredential ==
  (apiKey = "" /\ Started)
    => /\ NoFetch
       /\ res.sent
       /\ rq.pc = "done"
       /\ IF rq.op = "GET" /\ rq.request.ragId = ""
          THEN Refused(400)
          ELSE Refused(500)

\* An upload without ragId and without file, refused for the credential.
C8_Witness ==
  /\ apiKey = ""
  /\ Started
  /\ rq.op = "POST"
  /\ Parsed
  /\ rq.request.ragId = ""
  /\ ~rq.request.file.present
  /\ res.sent
  /\ res.status = 500

\* C9: with the credential configured, deleteDocuments calls the backend only
\* when ragId is present and documentNames is a non-empty list; otherwise it
\* answers 400 with success=false and calls nothing.
C9_AsStated ==
  (apiKey # "" /\ Started /\ rq.op = "DELETE" /\ Parsed)
    => LET d == rq.request.documentNames
           wellFormed == /\ rq.request.ragId # ""
                         /\ d.kind = "array"
                         /\ Len(d.items) > 0
       IN  /\ ~NoFetch => wellFormed
           /\ ~wellFormed => (NoFetch /\ res.sent /\ Refused(400))

\* C10: when the backend answers the delete call with a success status, the
\* proxy answers success=true with deletedCount the number of names in the
\* request, whatever count the backend's body reports.
C10_DeletedCountIsRequested ==
  (/\ Started
   /\ rq.op = "DELETE"
   /\ rq.pc = "done"
   /\ "response" \in DOMAIN rq
   /\ rq.response.kind = "response"
   /\ rq.response.ok)
    => /\ res.sent
       /\ res.status = 200
       /\ res.body.success
       /\ res.body.deletedCount = Len(rq.request.documentNames.items)

\* Two names requested, none removed by the backend, two reported.
C10_Witness ==
  /\ Started
  /\ rq.op = "DELETE"
  /\ rq.pc = "done"
  /\ "response" \in DOMAIN rq
  /\ rq.response.kind = "response"
  /\ rq.response.ok
  /\ rq.response.removed = 0
  /\ res.body.deletedCount = 2

\* C11: in every reachable state of the chat, under any interleaving of
\* sendMessage invocations, suggestion clicks and completions, the message
\* list is only ever extended at its end; it alternates user, agent, user,
\* agent, ... starting with a user Message; loading is true exactly when the
\* list length is odd, which is exactly when the last Message is a user
\* Message whose agent call is outstanding; and when loading is false there
\* are as many user as agent Messages.
C11_AppendOnlyAlternation ==
  /\ [][/\ Len(messages') >= Len(messages)
        /\ Len(messages') <= Len(messages) + 1
        /\ SubSeq(messages', 1, Len(messages)) = messages]_vars
  /\ [](\A i \in DOMAIN messages :
          messages[i].role = IF i % 2 = 1 THEN "user" ELSE "agent")
  /\ [](loading <=> Len(messages) % 2 = 1)
  /\ [](loading <=> (/\ messages # <<>>
                     /\ Len(inflight) = 1
                     /\ Last(messages) = userMessage(inflight[1].message)))
  /\ [](~loading => /\ inflight = <<>>
                    /\ CountRole(messages, "user") = CountRole(messages, "agent"))

\* In the second round trip a suggestion click with another text was
\* suppressed: three Messages, the third the user's, the call still out.
C11_Witness ==
  /\ ev.op = "click"
  /\ ev.suggestion = <<" ">>
  /\ Len(messages) = 3
  /\ messages[2].role = "agent"
  /\ messages[3] = userMessage(<<"a">>)
  /\ loading
  /\ Len(inflight) = 1

====
